---- MODULE Spec2Model ----
(***************************************************************************)
(* Model of streamlit_app.py: one "Generate My Timetable" request of the   *)
(* IMT timetable generator.  Strings are sequences of one-character        *)
(* strings, so that strip, replace, split, slicing and the class regular   *)
(* expression are computed character by character.                         *)
(***************************************************************************)
EXTENDS Integers, Sequences, FiniteSets, TLC

(***************************************************************************)
(* Characters and Python string helpers                                    *)
(***************************************************************************)
NL == "\n"

\* Python None (an empty table cell as pdfplumber reports it); no string
\* of the model contains this element.
None == <<"<None>">>

\* A local variable that has not been assigned yet (current_day).
Unbound == <<"<unbound>">>

Upper == {"A","B","C","D","E","F","G","H","I","J","K","L","M",
          "N","O","P","Q","R","S","T","U","V","W","X","Y","Z"}

Lower == {"a","b","c","d","e","f","g","h","i","j","k","l","m",
          "n","o","p","q","r","s","t","u","v","w","x","y","z"}

Digit == {"0","1","2","3","4","5","6","7","8","9"}

\* \s of the re module and the characters str.strip() / str.split() remove
WS == {" ", NL, "\t", "\r"}

\* [A-Z\d\w-]
WordDash == Upper \cup Lower \cup Digit \cup {"_", "-"}

\* [A-Z\s/]
FacultyClass == Upper \cup WS \cup {"/"}

\* [\(\{] and [\)\}]
OpenBr == {"(", "{"}

CloseBr == {")", "}"}

\* bool(x) of an optional string: None and "" are falsy
Truthy(x) == x # None /\ x # <<>>

\* s[a:b] with 1-based inclusive positions
Slice(s, a, b) == [k \in 1..(b - a + 1) |-> s[a + k - 1]]

RECURSIVE Replace(_, _, _)
\* s.replace(c, r) for a one-character c
Replace(s, c, r) ==
  IF s = <<>> THEN <<>>
  ELSE (IF Head(s) = c THEN r ELSE <<Head(s)>>) \o Replace(Tail(s), c, r)

\* s.strip()
Strip(s) ==
  LET keep == {k \in 1..Len(s) : s[k] \notin WS}
  IN  IF keep = {} THEN <<>>
      ELSE LET a == CHOOSE k \in keep : \A j \in keep : k <= j
               b == CHOOSE k \in keep : \A j \in keep : k >= j
           IN  Slice(s, a, b)

RECURSIVE SplitBlank(_)
\* s.split('\n\n')
SplitBlank(s) ==
  LET at == {k \in 1..(Len(s) - 1) : s[k] = NL /\ s[k + 1] = NL}
  IN  IF at = {} THEN <<s>>
      ELSE LET k == CHOOSE i \in at : \A j \in at : i <= j
           IN  <<Slice(s, 1, k - 1)>> \o SplitBlank(Slice(s, k + 2, Len(s)))

RECURSIVE SplitChar(_, _)
\* s.split(c) for a one-character c
SplitChar(s, c) ==
  LET at == {k \in 1..Len(s) : s[k] = c}
  IN  IF at = {} THEN <<s>>
      ELSE LET k == CHOOSE i \in at : \A j \in at : i <= j
           IN  <<Slice(s, 1, k - 1)>> \o SplitChar(Slice(s, k + 1, Len(s)), c)

\* x.split()[0] for a string with at least one non-blank character
FirstWord(x) ==
  LET keep == {k \in 1..Len(x) : x[k] \notin WS}
      a    == CHOOSE k \in keep : \A j \in keep : k <= j
      stop == {k \in a..Len(x) : x[k] \in WS}
      b    == IF stop = {} THEN Len(x)
              ELSE (CHOOSE k \in stop : \A j \in stop : k <= j) - 1
  IN  Slice(x, a, b)

\* s[:n]
Prefix(s, n) == IF Len(s) <= n THEN s ELSE Slice(s, 1, n)

\* s occurs in t as a contiguous substring (Python: s in t)
Occurs(s, t) ==
  \E a \in 0..(Len(t) - Len(s)) : \A k \in 1..Len(s) : t[a + k] = s[k]

Max(S) == CHOOSE x \in S : \A y \in S : x >= y

Min(S) == CHOOSE x \in S : \A y \in S : x <= y

(***************************************************************************)
(* class_pattern.match(t): the pattern                                     *)
(*   ([A-Z\d\w-]+)-([A-Z])\((\d+)\)-\s*([A-Z\s/]+?)\s*[\(\{](.+?)[\)\}]    *)
(* anchored at the start of t.  A backtracking matcher returns the first   *)
(* successful assignment in priority order: greedy quantifiers prefer the  *)
(* longest repetition, lazy ones the shortest.                             *)
(***************************************************************************)
NoMatch == [matched |-> FALSE]

ClassPatternMatch(t) ==
  LET n == Len(t)
      AllIn(a, b, C) == \A k \in a..b : t[k] \in C
      Is(k, c) == k <= n /\ t[k] = c
      \* (.+?)[\)\}] with the venue starting at q: ends of the venue
      VenueEnds(q) == {v \in q..(n - 1) : t[v + 1] \in CloseBr}
      \* \s*[\(\{](.+?)[\)\}] starting at s: positions of the open bracket
      Opens(s) == {o \in s..n : AllIn(s, o - 1, WS) /\ t[o] \in OpenBr
                                 /\ VenueEnds(o + 1) # {}}
      \* ([A-Z\s/]+?) starting at f: ends of the faculty group
      FacultyEnds(f) == {e \in f..n : AllIn(f, e, FacultyClass) /\ Opens(e + 1) # {}}
      \* \s* after ")-" starting at s: last position of the white space
      LeadEnds(s) == {w \in (s - 1)..n : AllIn(s, w, WS) /\ FacultyEnds(w + 1) # {}}
      \* (\d+)\)- starting at d: ends of the session group
      SessionEnds(d) == {e \in d..n : AllIn(d, e, Digit) /\ Is(e + 1, ")")
                                       /\ Is(e + 2, "-") /\ LeadEnds(e + 3) # {}}
      \* ([A-Z\d\w-]+)-([A-Z])\( : ends of the course group
      CourseEnds == {p \in 1..n : AllIn(1, p, WordDash) /\ Is(p + 1, "-")
                                   /\ p + 2 <= n /\ t[p + 2] \in Upper
                                   /\ Is(p + 3, "(") /\ SessionEnds(p + 4) # {}}
  IN  IF CourseEnds = {} THEN NoMatch
      ELSE LET p  == Max(CourseEnds)
               e  == Max(SessionEnds(p + 4))
               w  == Max(LeadEnds(e + 3))
               fe == Min(FacultyEnds(w + 1))
               o  == Max(Opens(fe + 1))
               v  == Min(VenueEnds(o + 1))
           IN  [matched |-> TRUE,
                course_abbr |-> Slice(t, 1, p),
                section |-> <<t[p + 2]>>,
                session |-> Slice(t, p + 4, e),
                faculty |-> Slice(t, w + 1, fe),
                venue |-> Slice(t, o + 1, v)]

(***************************************************************************)
(* parse_timetable_pdf: the body of the loops over rows, cells and chunks  *)
(***************************************************************************)
NA == <<"N", "/", "A">>

\* line 45: the row's first column carries a day label
HasDay(day_info) == Truthy(day_info) /\ Strip(day_info) # <<>>

\* fault: the label is taken from any non-empty first column, blank or not
NextDayNoStrip(day_info, current) ==
  IF Truthy(day_info) THEN Replace(day_info, NL, <<" ">>) ELSE current

\* lines 44-46: current_day after the row's first column has been read
NextDay(day_info, current) ==
  IF HasDay(day_info) THEN Replace(day_info, NL, <<" ">>) ELSE current

\* line 57: the time slot of Python column index i
TimeSlotInRange(time_slots, i) == i < Len(time_slots)

\* fault: the header is indexed one column to the left
TimeSlotShifted(time_slots, i) ==
  IF TimeSlotInRange(time_slots, i) THEN Replace(time_slots[i], NL, <<>>) ELSE NA

TimeSlot(time_slots, i) ==
  IF TimeSlotInRange(time_slots, i) THEN Replace(time_slots[i + 1], NL, <<>>) ELSE NA

\* lines 50-52: the chunks of a cell
CellChunks(cell) ==
  IF Truthy(cell) /\ Strip(cell) # <<>> THEN SplitBlank(Strip(cell)) ELSE <<>>

\* lines 54-66: one chunk of the cell at column index i
ChunkResult(text, day, time_slots, i) ==
  LET m == ClassPatternMatch(Replace(text, NL, <<" ">>))
  IN  IF ~m.matched THEN [kind |-> "skip"]
      ELSE IF TimeSlotInRange(time_slots, i) /\ time_slots[i + 1] = None
        THEN [kind |-> "raise", error |-> "AttributeError"]
      ELSE IF day = Unbound
        THEN [kind |-> "raise", error |-> "UnboundLocalError"]
      ELSE [kind |-> "entry",
            entry |-> [Day |-> day,
                       Time |-> TimeSlot(time_slots, i),
                       Course_Abbreviation |-> Strip(m.course_abbr),
                       Section |-> Strip(m.section),
                       Faculty |-> Strip(m.faculty),
                       Venue |-> Strip(m.venue)]]

RECURSIVE RowItems(_, _)
\* lines 49-53: the (column index, chunk number, text) triples of a row from
\* column index i on, in the order the loops visit them
RowItems(row, i) ==
  IF i >= Len(row) THEN <<>>
  ELSE LET ch == CellChunks(row[i + 1])
       IN  [c \in 1..Len(ch) |-> [col |-> i, chunk |-> c, text |-> ch[c]]]
           \o RowItems(row, i + 1)

RECURSIVE RunItemsBreak(_, _, _, _)
\* fault: a chunk that matches nothing ends the parsing of its row
RunItemsBreak(items, day, time_slots, acc) ==
  IF items = <<>> THEN acc
  ELSE LET it == Head(items)
           r  == ChunkResult(it.text, day, time_slots, it.col)
       IN  IF r.kind = "raise"
             THEN [acc EXCEPT !.raised = r.error]
           ELSE IF r.kind = "skip"
             THEN acc
           ELSE RunItemsBreak(Tail(items), day, time_slots,
                              [acc EXCEPT !.entries = Append(@, r.entry),
                                          !.at = Append(@, <<it.col, it.chunk>>)])

RECURSIVE RunItems(_, _, _, _)
\* lines 53-66 iterated: the entries appended until the items are exhausted
\* or a statement raises
RunItems(items, day, time_slots, acc) ==
  IF items = <<>> THEN acc
  ELSE LET it == Head(items)
           r  == ChunkResult(it.text, day, time_slots, it.col)
       IN  IF r.kind = "raise"
             THEN [acc EXCEPT !.raised = r.error]
           ELSE IF r.kind = "skip"
             THEN RunItems(Tail(items), day, time_slots, acc)
           ELSE RunItems(Tail(items), day, time_slots,
                         [acc EXCEPT !.entries = Append(@, r.entry),
                                     !.at = Append(@, <<it.col, it.chunk>>)])

\* lines 43-66: one iteration of "for row in table[1:]"
RowResult(row, current, time_slots) ==
  IF row = <<>>
    THEN [day |-> current, entries |-> <<>>, at |-> <<>>, raised |-> "IndexError"]
  ELSE LET day == NextDay(row[1], current)
       IN  RunItems(RowItems(row, 1), day, time_slots,
                    [day |-> day, entries |-> <<>>, at |-> <<>>, raised |-> "none"])

(***************************************************************************)
(* main: catalog, selection widget, filter, weekday sort                   *)
(***************************************************************************)
\* The catalog file after load_course_data standardised its column names
CourseRows ==
  << [Abbriviation |-> <<"M">>, Course_Name |-> <<"F", "i", "n">>,
      Sections |-> <<"A", ",", " ", "B">>],
     [Abbriviation |-> <<"X", "M">>, Course_Name |-> <<"O", "p", "s">>,
      Sections |-> <<"A">>] >>

UnknownCourse == <<"U", "n", "k", "n", "o", "w", "n", " ", "C", "o", "u", "r", "s", "e">>

Sep == <<" ", "-", " ">>

\* lines 88-93: the "Course - Section" options of the multiselect
CourseSectionOptions ==
  UNION { { CourseRows[r].Abbriviation \o Sep \o Strip(sec) :
              sec \in { SplitChar(CourseRows[r].Sections, ",")[k] :
                          k \in 1..Len(SplitChar(CourseRows[r].Sections, ",")) } } :
          r \in 1..Len(CourseRows) }

\* line 82 and the .get of line 125
AbbrToName(abbr) ==
  LET hits == {r \in 1..Len(CourseRows) : CourseRows[r].Abbriviation = abbr}
  IN  IF hits = {} THEN UnknownCourse ELSE CourseRows[Max(hits)].Course_Name

\* line 122
ClassId(cls) == cls.Course_Abbreviation \o Sep \o cls.Section

\* fault: loose containment, a selected string anywhere in the identifier
InSelectionsSubstring(class_id, selections) ==
  \E s \in selections : Occurs(s, class_id)

\* line 123: class_id in user_selections
InSelections(class_id, selections) == class_id \in selections

\* fault: the full name is written over the abbreviation
AddCourseNameWrongKey(cls) ==
  [cls EXCEPT !.Course_Abbreviation = AbbrToName(cls.Course_Abbreviation)]

\* line 125: cls['Course_Name'] = ...; the dict is changed in place
AddCourseName(cls) ==
  [f \in DOMAIN cls \cup {"Course_Name"} |->
     IF f = "Course_Name" THEN AbbrToName(cls.Course_Abbreviation) ELSE cls[f]]

RECURSIVE FilterLoop(_, _, _, _)
\* lines 120-126: the loop from position k on.  my_classes holds the same
\* dict objects as all_classes, so an annotated entry changes in both.
FilterLoop(classes, k, selections, mine) ==
  IF k > Len(classes) THEN [all |-> classes, mine |-> mine]
  ELSE IF InSelections(ClassId(classes[k]), selections)
    THEN LET cls == AddCourseName(classes[k])
         IN  FilterLoop([classes EXCEPT ![k] = cls], k + 1, selections,
                        Append(mine, cls))
  ELSE FilterLoop(classes, k + 1, selections, mine)

FilterClasses(classes, selections) == FilterLoop(classes, 1, selections, <<>>)

\* fault: the check for an empty extraction is missing
NoClassesNever(classes) == FALSE

\* line 115: "if not all_classes"
NoClasses(classes) == classes = <<>>

\* lines 135-137
day_order == << <<"M", "o", "n">>, <<"T", "u", "e">>, <<"W", "e", "d">>,
                <<"T", "h", "u">>, <<"F", "r", "i">>, <<"S", "a", "t">>,
                <<"S", "u", "n">> >>

\* line 141
DayShort(x) == IF Truthy(x) THEN Prefix(FirstWord(x), 3) ELSE NA

\* line 142: the code of a value in the ordered categorical; a value that is
\* no category becomes NaN
NaN == 0

DayCode(short) ==
  IF \E k \in 1..Len(day_order) : day_order[k] = short
    THEN CHOOSE k \in 1..Len(day_order) : day_order[k] = short
  ELSE NaN

\* sort_values puts NaN last
Before(a, b) == a # NaN /\ (b = NaN \/ a < b)

RECURSIVE SortedOrders(_, _)
\* line 143: df.sort_values('Day_Short') with the default kind='quicksort',
\* which is not a stable sort: every arrangement of the row labels that is
\* ordered by the key is a possible result
SortedOrders(codes, left) ==
  IF left = {} THEN {<<>>}
  ELSE LET first == {i \in left : \A j \in left : ~Before(codes[j], codes[i])}
       IN  UNION { { <<i>> \o rest : rest \in SortedOrders(codes, left \ {i}) } :
                   i \in first }

RECURSIVE Unique(_)
\* line 146: the distinct values in order of first appearance
Unique(s) ==
  IF s = <<>> THEN <<>>
  ELSE LET u == Unique(Slice(s, 1, Len(s) - 1))
       IN  IF \E k \in 1..Len(u) : u[k] = s[Len(s)] THEN u ELSE Append(u, s[Len(s)])

\* lines 147-148: the rows of df whose Day_Short == day_name; a comparison
\* with NaN is False for every row
RowsOfDay(frame, codes, day_name) ==
  IF day_name = NaN THEN <<>>
  ELSE SelectSeq(frame, LAMBDA i : codes[i] = day_name)

(***************************************************************************)
(* Inputs of one request: the tables pdfplumber extracts from the pages    *)
(***************************************************************************)
MaxPages == 2

cMA == <<"M", "-", "A", "(", "1", ")", "-", "F", "{", "V", "}">>

cXMA == <<"X", "M", "-", "A", "(", "2", ")", "-", " ", "G", " ", "(", "R", ")">>

cMB == <<"M", "-", "B", "(", "3", ")", "-", NL, "F", "{", "W", "}">>

cJunk == <<"x", " ", "y">>

cBlank == <<" ", NL>>

\* three chunks separated by blank lines; the middle one matches nothing
cMulti == cMA \o <<NL, NL>> \o cJunk \o <<NL, NL>> \o cMB

hFull == << <<"D">>, <<"9", NL, "1", "0">>, <<"1", "1">> >>

hShort == << <<"D">>, <<"9">> >>

hNone == << <<"D">>, None, <<"1", "1">> >>

dMon == <<"M", "o", "n">>

dTue == <<"T", "u", "e", NL, "2">>

dWed == <<"W", "e", "d", "n", "e", "s", "d", "a", "y">>

dOdd == <<"M", "O", "N">>

\* a page without a table: extract_table() returns None
NoTable == <<>>

\* a day spanning two rows
tCarry == << hFull, <<dMon, cMA, cJunk>>, <<None, cXMA, None>> >>

\* a header shorter than the rows, a blank day cell, a one-column row
tShort == << hShort, <<dTue, cJunk, cMB>>, <<cBlank, cMA, <<>> >>, <<dMon>> >>

\* several chunks in one cell
tMulti == << hFull, <<dWed, cMulti, cBlank>> >>

\* the first data row has no day label
tNoDay == << hFull, <<None, cMA, None>> >>

\* a header cell that is None above a class cell
tNoneHeader == << hNone, <<dMon, cMB, cMA>> >>

\* a day label that is no weekday of day_order
tOddDay == << hFull, <<dMon, cXMA, None>>, <<dOdd, cMA, None>> >>

\* nothing that matches the pattern
tJunk == << hFull, <<dMon, cJunk, None>> >>

Tables == {NoTable, tCarry, tShort, tMulti, tNoDay, tNoneHeader, tOddDay,
           tJunk}

Pdfs == UNION { [1..n -> Tables] : n \in 1..MaxPages }

(***************************************************************************)
(* State                                                                   *)
(***************************************************************************)
VARIABLES
  catalog_present,   \* Course_and_Sections.csv exists
  user_selections,   \* the multiselect's value
  has_upload,        \* the file uploader holds a file
  pdf,               \* the table of each page (NoTable when there is none)
  pc,                \* position in main
  page, row,         \* loop positions of parse_timetable_pdf (1-based)
  current_day,
  all_classes,
  origin,            \* history: <<page, row, column index, chunk>> of each entry
  parsed,            \* history: the list parse_timetable_pdf returned
  my_classes,
  df,                \* the row labels of the sorted frame
  day_pos,           \* position in df['Day_Short'].unique()
  displayed,         \* row labels written to the page, in order
  messages,          \* st.error / st.warning / st.info / st.success calls
  raised             \* the exception that escaped, or "none"

vars == <<catalog_present, user_selections, has_upload, pdf, pc, page,
          row, current_day, all_classes, origin, parsed, my_classes, df, day_pos,
          displayed, messages, raised>>

inputs == <<catalog_present, user_selections, has_upload, pdf>>

Init ==
  /\ catalog_present \in BOOLEAN
  /\ user_selections \in (IF catalog_present THEN SUBSET CourseSectionOptions ELSE {{}})
  /\ has_upload \in (IF catalog_present THEN BOOLEAN ELSE {FALSE})
  /\ pdf \in (IF has_upload THEN Pdfs ELSE {<<>>})
  /\ pc = "start"
  /\ page = 1
  /\ row = 2
  /\ current_day = Unbound
  /\ all_classes = <<>>
  /\ origin = <<>>
  /\ parsed = <<>>
  /\ my_classes = <<>>
  /\ df = <<>>
  /\ day_pos = 1
  /\ displayed = <<>>
  /\ messages = <<>>
  /\ raised = "none"

\* the codes of the Day_Short column, by row label
Codes == [i \in 1..Len(my_classes) |-> DayCode(DayShort(my_classes[i].Day))]

\* df['Day_Short'].unique() of the sorted frame
UniqueDays == Unique([k \in 1..Len(df) |-> Codes[df[k]]])

Say(kind) == messages' = Append(messages, kind)

Finish(kind) ==
  /\ Say(kind)
  /\ pc' = "done"

(***************************************************************************)
(* Actions                                                                 *)
(***************************************************************************)
\* lines 77-79, 19-21
CatalogMissing ==
  /\ pc = "start"
  /\ ~catalog_present
  /\ Finish("error: catalog not found")
  /\ UNCHANGED <<inputs, page, row, current_day, all_classes, origin, parsed,
                 my_classes, df, day_pos, displayed, raised>>

\* lines 104-106
WarnNoSelection ==
  /\ pc = "start"
  /\ catalog_present
  /\ user_selections = {}
  /\ Finish("warning: select courses")
  /\ UNCHANGED <<inputs, page, row, current_day, all_classes, origin, parsed,
                 my_classes, df, day_pos, displayed, raised>>

\* lines 107-108
WarnNoUpload ==
  /\ pc = "start"
  /\ catalog_present
  /\ user_selections # {}
  /\ ~has_upload
  /\ Finish("warning: upload pdf")
  /\ UNCHANGED <<inputs, page, row, current_day, all_classes, origin, parsed,
                 my_classes, df, day_pos, displayed, raised>>

\* lines 109-113, 28-33: parse_timetable_pdf is entered
OpenPdf ==
  /\ pc = "start"
  /\ catalog_present
  /\ user_selections # {}
  /\ has_upload
  /\ pc' = "parse"
  /\ UNCHANGED <<inputs, page, row, current_day, all_classes, origin, parsed,
                 my_classes, df, day_pos, displayed, messages, raised>>

\* lines 34-37: a page without a table
SkipPage ==
  /\ pc = "parse"
  /\ page <= Len(pdf)
  /\ pdf[page] = NoTable
  /\ page' = page + 1
  /\ row' = 2
  /\ UNCHANGED <<inputs, pc, current_day, all_classes, origin, parsed, my_classes,
                 df, day_pos, displayed, messages, raised>>

\* lines 43-66: one row of the page's table
ParseRow ==
  /\ pc = "parse"
  /\ page <= Len(pdf)
  /\ pdf[page] # NoTable
  /\ row <= Len(pdf[page])
  /\ LET r == RowResult(pdf[page][row], current_day, pdf[page][1])
     IN  IF r.raised = "none"
           THEN /\ current_day' = r.day
                /\ all_classes' = all_classes \o r.entries
                /\ origin' = origin \o
                     [k \in 1..Len(r.at) |-> <<page, row, r.at[k][1], r.at[k][2]>>]
                /\ row' = row + 1
                /\ UNCHANGED <<pc, raised>>
           ELSE \* the exception unwinds parse_timetable_pdf and main
                /\ raised' = r.raised
                /\ pc' = "done"
                /\ all_classes' = <<>>
                /\ origin' = <<>>
                /\ UNCHANGED <<current_day, row>>
  /\ UNCHANGED <<inputs, page, parsed, my_classes, df, day_pos, displayed, messages>>

\* line 43 exhausted: on to the next page
NextPage ==
  /\ pc = "parse"
  /\ page <= Len(pdf)
  /\ pdf[page] # NoTable
  /\ row > Len(pdf[page])
  /\ page' = page + 1
  /\ row' = 2
  /\ UNCHANGED <<inputs, pc, current_day, all_classes, origin, parsed, my_classes,
                 df, day_pos, displayed, messages, raised>>

\* lines 67, 113-117
ParseReturn ==
  /\ pc = "parse"
  /\ page > Len(pdf)
  /\ parsed' = all_classes
  /\ IF NoClasses(all_classes)
       THEN Finish("error: nothing extracted")
       ELSE pc' = "filter" /\ UNCHANGED messages
  /\ UNCHANGED <<inputs, page, row, current_day, all_classes, origin, my_classes,
                 df, day_pos, displayed, raised>>

\* lines 119-132
Filter ==
  /\ pc = "filter"
  /\ LET f == FilterClasses(all_classes, user_selections)
     IN  /\ all_classes' = f.all
         /\ my_classes' = f.mine
         /\ IF f.mine = <<>>
              THEN Finish("info: no classes found")
              ELSE Say("success") /\ pc' = "sort"
  /\ UNCHANGED <<inputs, page, row, current_day, origin, parsed, df, day_pos,
                 displayed, raised>>

\* lines 140-143
SortValues ==
  /\ pc = "sort"
  /\ df' \in SortedOrders(Codes, 1..Len(my_classes))
  /\ pc' = "display"
  /\ UNCHANGED <<inputs, page, row, current_day, all_classes, origin, parsed,
                 my_classes, day_pos, displayed, messages, raised>>

\* lines 146-159: one iteration of the loop over the unique days
DisplayDay ==
  /\ pc = "display"
  /\ day_pos <= Len(UniqueDays)
  /\ LET rows == RowsOfDay(df, Codes, UniqueDays[day_pos])
     IN  IF rows = <<>>
           THEN \* .iloc[0] of an empty selection
                /\ raised' = "IndexError"
                /\ pc' = "done"
                /\ UNCHANGED <<day_pos, displayed>>
           ELSE /\ displayed' = displayed \o rows
                /\ day_pos' = day_pos + 1
                /\ pc' = IF day_pos = Len(UniqueDays) THEN "done" ELSE "display"
                /\ UNCHANGED raised
  /\ UNCHANGED <<inputs, page, row, current_day, all_classes, origin, parsed,
                 my_classes, df, messages>>

Next ==
  \/ CatalogMissing
  \/ WarnNoSelection
  \/ WarnNoUpload
  \/ OpenPdf
  \/ SkipPage
  \/ ParseRow
  \/ NextPage
  \/ ParseReturn
  \/ Filter
  \/ SortValues
  \/ DisplayDay

Spec == Init /\ [][Next]_vars

(***************************************************************************)
(* Properties                                                              *)
(***************************************************************************)
\* the selection filter of main has run
FilterRan ==
  /\ messages # <<>>
  /\ messages[Len(messages)] \in {"success", "info: no classes found"}

\* the six fields parse_timetable_pdf gives an entry
Core(c) ==
  [f \in {"Day", "Time", "Course_Abbreviation", "Section", "Faculty", "Venue"} |-> c[f]]

CoreSeq(cs) == [k \in 1..Len(cs) |-> Core(cs[k])]

\* "<Course_Abbreviation> - <Section>"
Identifier(c) == c.Course_Abbreviation \o <<" ", "-", " ">> \o c.Section

\* C1: an entry is in the filtered result if and only if its identifier
\* "<Course_Abbreviation> - <Section>" is verbatim a member of the selection
\* set; the result keeps the kept entries in their order.
C1_ExactIdentity ==
  FilterRan =>
    CoreSeq(my_classes) =
      SelectSeq(parsed, LAMBDA c : \E s \in user_selections : s = Identifier(c))

\* C1 witness: an entry was dropped although a selected string is a proper
\* substring of its identifier, and another entry was kept.
C1_Witness ==
  /\ FilterRan
  /\ my_classes # <<>>
  /\ \E k \in 1..Len(parsed) :
       /\ Identifier(parsed[k]) \notin user_selections
       /\ \E s \in user_selections : Occurs(s, Identifier(parsed[k]))

\* C2: every request ends in a rendered schedule or a message; no exception
\* escapes parse_timetable_pdf or main.
C2_NoCrash ==
  pc = "done" => (raised = "none" /\ (messages # <<>> \/ displayed # <<>>))

\* parse_timetable_pdf is running, or has returned the list all_classes that
\* main has not yet touched
InParse == pc \in {"parse", "filter"}

\* the data rows of the document in the order the loops visit them
DataRows == UNION { { <<p, r>> : r \in 2..Len(pdf[p]) } : p \in 1..Len(pdf) }

Earlier(a, b) == a[1] < b[1] \/ (a[1] = b[1] /\ a[2] < b[2])

\* the first column of the row is non-empty after trimming
NonBlankDay(pr) ==
  LET cell == pdf[pr[1]][pr[2]][1]
  IN  cell # None /\ \E k \in 1..Len(cell) : cell[k] \notin WS

\* rows at or before pr that carry a day label
LabelRows(pr) == {q \in DataRows : (q = pr \/ Earlier(q, pr)) /\ NonBlankDay(q)}

\* the label of the nearest such row, line breaks replaced by spaces
NearestLabel(pr) ==
  LET q == CHOOSE x \in LabelRows(pr) : \A y \in LabelRows(pr) : y = x \/ Earlier(y, x)
  IN  Replace(pdf[q[1]][q[2]][1], NL, <<" ">>)

\* C3: the Day of each parsed entry is the first-column text (line breaks
\* replaced by spaces) of the nearest row at or before the entry's row whose
\* first column is non-empty after trimming; a row with a blank first column
\* leaves the current day label as it was.
C3_DayCarry ==
  /\ InParse =>
       \A k \in 1..Len(origin) :
         /\ LabelRows(<<origin[k][1], origin[k][2]>>) # {}
         /\ all_classes[k].Day = NearestLabel(<<origin[k][1], origin[k][2]>>)
  /\ (pc = "parse") =>
       LET done == {q \in DataRows : Earlier(q, <<page, row>>)}
           last == CHOOSE x \in done : \A y \in done : y = x \/ Earlier(y, x)
       IN  IF done = {} \/ LabelRows(last) = {}
             THEN current_day = Unbound
             ELSE current_day = NearestLabel(last)

\* C3 witness: an entry from a row with a blank first column has the label
\* of an earlier row, and an entry on a later page has a label of an earlier
\* page.
C3_Witness ==
  /\ pc = "filter"
  /\ \E k \in 1..Len(origin) : ~NonBlankDay(<<origin[k][1], origin[k][2]>>)
  /\ \E k \in 1..Len(origin) :
       /\ origin[k][1] = 2
       /\ \A q \in LabelRows(<<origin[k][1], origin[k][2]>>) : q[1] = 1

\* C4: two displayed records of the same weekday prefix are displayed in the
\* order in which they were extracted.
C4_StableWithinDay ==
  \A a, b \in 1..Len(displayed) :
    (a < b /\ Codes[displayed[a]] = Codes[displayed[b]]) => displayed[a] < displayed[b]

\* C5: the displayed records are in the order Mon..Sun with unrecognised
\* prefixes last, and every filtered record is displayed exactly once.
C5_DayOrderAllShown ==
  (pc = "done" /\ my_classes # <<>>) =>
    /\ Len(displayed) = Len(my_classes)
    /\ \A i \in 1..Len(my_classes) : \E a \in 1..Len(displayed) : displayed[a] = i
    /\ \A a, b \in 1..Len(displayed) :
         a < b => ~Before(Codes[displayed[b]], Codes[displayed[a]])

\* no chunk of any cell of the document matches the pattern
EmptyExtraction ==
  \A q \in DataRows : \A c \in 2..Len(pdf[q[1]][q[2]]) :
    LET cell == pdf[q[1]][q[2]][c]
        ch == IF cell = None THEN <<>> ELSE SplitBlank(Strip(cell))
    IN  \A n \in 1..Len(ch) : ~ClassPatternMatch(Replace(ch[n], NL, <<" ">>)).matched

IsError(m) == m \in {"error: catalog not found", "error: nothing extracted"}

Extracted == catalog_present /\ user_selections # {} /\ has_upload

\* C6 as stated: an empty selection set or an empty extraction gives an
\* empty result and no error report.
C6_EmptyIsNoError ==
  (pc = "done" /\ catalog_present
     /\ (user_selections = {} \/ (Extracted /\ EmptyExtraction))) =>
    /\ displayed = <<>>
    /\ raised = "none"
    /\ \A k \in 1..Len(messages) : ~IsError(messages[k])

\* C6 amended: an empty selection set gives an empty result and a warning,
\* not an error; an empty extraction gives an empty result and the error
\* message of line 116, and no exception.
C6_EmptyResult ==
  (pc = "done" /\ catalog_present) =>
    /\ user_selections = {} =>
         /\ displayed = <<>>
         /\ raised = "none"
         /\ messages = <<"warning: select courses">>
    /\ (Extracted /\ EmptyExtraction) =>
         /\ displayed = <<>>
         /\ raised = "none"
         /\ messages = <<"error: nothing extracted">>

\* C6 witness: a request whose document has a table but no matching cell
\* has ended.
C6_Witness ==
  /\ pc = "done"
  /\ Extracted
  /\ EmptyExtraction
  /\ \E p \in 1..Len(pdf) : Len(pdf[p]) > 1

\* C7: after filtering, the list of parsed entries and each entry in it are
\* what they were before filtering.
C7_InputsUnchanged == FilterRan => all_classes = parsed

\* C8: Time is the header cell at the entry's column index with line breaks
\* removed, or "N/A" when the index is at or beyond the header's length; the
\* header is the first row of the table of the entry's page.
C8_TimeSlot ==
  InParse =>
    \A k \in 1..Len(origin) :
      LET header == pdf[origin[k][1]][1]
          i == origin[k][3]
      IN  /\ i >= 1
          /\ all_classes[k].Time =
               IF i < Len(header) THEN Replace(header[i + 1], NL, <<>>)
               ELSE <<"N", "/", "A">>

\* C8 witness: one entry comes from a column beyond the header, another from
\* a column whose header cell has a line break.
C8_Witness ==
  /\ pc = "filter"
  /\ \E k \in 1..Len(origin) : origin[k][3] >= Len(pdf[origin[k][1]][1])
  /\ \E k \in 1..Len(origin) :
       /\ origin[k][3] < Len(pdf[origin[k][1]][1])
       /\ \E j \in 1..Len(pdf[origin[k][1]][1][origin[k][3] + 1]) :
            pdf[origin[k][1]][1][origin[k][3] + 1][j] = NL

\* C9: filtering the filtered list again with the same selection set gives
\* the same list.
C9_Idempotent ==
  FilterRan => FilterClasses(my_classes, user_selections).mine = my_classes

\* C9 witness: the filter dropped an entry and kept two equal entries.
C9_Witness ==
  /\ FilterRan
  /\ Len(my_classes) < Len(parsed)
  /\ \E a, b \in 1..Len(my_classes) : a < b /\ my_classes[a] = my_classes[b]

\* the chunks of the cell at column index i of data row q, split at blank lines
ChunksAt(q, i) ==
  LET cell == pdf[q[1]][q[2]][i + 1]
  IN  IF cell = None \/ Strip(cell) = <<>> THEN <<>> ELSE SplitBlank(Strip(cell))

MatchAt(o) ==
  ClassPatternMatch(Replace(ChunksAt(<<o[1], o[2]>>, o[3])[o[4]], NL, <<" ">>))

\* the positions <<page, row, column index, chunk>> of the matching chunks of
\* the rows in R
MatchingChunks(R) ==
  UNION { UNION { { <<q[1], q[2], i, n>> : n \in {m \in 1..Len(ChunksAt(q, i)) :
                                                    MatchAt(<<q[1], q[2], i, m>>).matched} } :
                  i \in 1..(Len(pdf[q[1]][q[2]]) - 1) } :
          q \in R }

OriginBefore(a, b) ==
  \E n \in 1..4 : a[n] < b[n] /\ \A m \in 1..(n - 1) : a[m] = b[m]

\* C10: while the document is parsed and when the list is returned, the entries are exactly one per matching
\* chunk of the rows read so far, in page, row, column, chunk order, and the
\* fields of each come from its own chunk; chunks that do not match and
\* pages without a table contribute nothing and stop nothing.
C10_IndependentChunks ==
  InParse =>
    /\ \A a, b \in 1..Len(origin) : a < b => OriginBefore(origin[a], origin[b])
    /\ {origin[k] : k \in 1..Len(origin)} =
         MatchingChunks(IF pc = "parse"
                          THEN {q \in DataRows : Earlier(q, <<page, row>>)}
                          ELSE DataRows)
    /\ \A k \in 1..Len(origin) :
         LET m == MatchAt(origin[k])
         IN  /\ all_classes[k].Course_Abbreviation = Strip(m.course_abbr)
             /\ all_classes[k].Section = Strip(m.section)
             /\ all_classes[k].Faculty = Strip(m.faculty)
             /\ all_classes[k].Venue = Strip(m.venue)

\* C10 witness: the third chunk of a cell gave an entry although the second
\* matched nothing, on a page that follows a page without a table.
C10_Witness ==
  /\ pc = "filter"
  /\ \E k \in 1..Len(origin) :
       /\ origin[k][4] = 3
       /\ ~ClassPatternMatch(Replace(ChunksAt(<<origin[k][1], origin[k][2]>>,
                                              origin[k][3])[2], NL, <<" ">>)).matched
       /\ origin[k][1] > 1
       /\ pdf[origin[k][1] - 1] = NoTable

====
